---- MODULE Spec2Model ----
(***************************************************************************)
(* A model of OxiTree: the BTRFS key order (src/src/btrfs.rs), the         *)
(* superblock codec (src/src/btrfs.rs), the block device adapter and the   *)
(* B-tree handle (src/src/btrees.rs).                                      *)
(*                                                                         *)
(* Every operation of the library is a function of the object it is        *)
(* called on and of its arguments; the only stored state is the tree's     *)
(* root, the device's size field and the backing file.  The four parts of  *)
(* the library do not share state, so each has a specification of its      *)
(* own (SpecKey, SpecTree, SpecSuper, SpecDev) over the same variables.    *)
(* `call` holds the operation invoked last and its arguments, `ret` what   *)
(* it produced: a return value, or a panic (a Rust abort: todo!(),         *)
(* expect(), unwrap(), an out-of-range slice).                             *)
(*                                                                         *)
(* Integers wider than 31 bits (u32, u64) are held as little-endian base   *)
(* 65536 digits ("limbs"), because TLC's integers are 32 bit.      *)
(***************************************************************************)
EXTENDS Integers, Sequences, FiniteSets, TLC

VARIABLES
    call,     \* the last operation invoked and its arguments
    ret,      \* its outcome
    root,     \* BTree.root : Option<Node>
    buffer,   \* the byte buffer handed to the superblock codec
    sb,       \* the BtrfsSuperblock parsed last (Option)
    file,     \* the backing file of the block device
    device    \* the BlockDevice (Option)

vars == <<call, ret, root, buffer, sb, file, device>>

None == [kind |-> "None"]
Some(v) == [kind |-> "Some", value |-> v]
Panic(m) == [kind |-> "panic", msg |-> m]
NoCall == [op |-> "none"]
NoRet == [kind |-> "none"]

\* An image (a buffer or a file) is a length and a list of patches over a
\* background of zero bytes; a later patch overwrites an earlier one.
EmptyImage == [len |-> 0, patches |-> <<>>]

----------------------------------------------------------------------------
(* Key ordering: src/src/btrfs.rs, BtrfsKey *)

MaxObjectId == 2
MaxTypeId == 1
ObjectIds == 1..MaxObjectId
TypeIds == 0..MaxTypeId
Offsets == {0, 3, 5}

BtrfsKey == [object_id : ObjectIds, type_id : TypeIds, offset : Offsets]

Key(o, t, f) == [object_id |-> o, type_id |-> t, offset |-> f]

\* u64::cmp / u8::cmp
IntCmp(x, y) == IF x < y THEN "Less" ELSE IF x = y THEN "Equal" ELSE "Greater"

\* A slip in the order: type_id compared before object_id.
cmp_type_first(self, other) ==
    LET t == IntCmp(self.type_id, other.type_id) IN
    IF t = "Equal"
    THEN LET o == IntCmp(self.object_id, other.object_id) IN
         IF o = "Equal" THEN IntCmp(self.offset, other.offset) ELSE o
    ELSE t

\* impl Ord for BtrfsKey
cmp(self, other) ==
    LET o == IntCmp(self.object_id, other.object_id) IN
    IF o = "Equal"
    THEN LET t == IntCmp(self.type_id, other.type_id) IN
         IF t = "Equal" THEN IntCmp(self.offset, other.offset) ELSE t
    ELSE o

\* impl PartialOrd for BtrfsKey
partial_cmp(self, other) == Some(cmp(self, other))

\* impl PartialEq for BtrfsKey
eq(self, other) ==
    /\ self.object_id = other.object_id
    /\ self.type_id = other.type_id
    /\ self.offset = other.offset

\* Three keys compared pairwise, as a caller of the order sees them.  The keys
\* are the arguments InitKey drew; the comparison reads them and changes nothing.
CompareKeys ==
    /\ call.op = "cmp"
    /\ ret = NoRet
    /\ LET a == call.a  b == call.b  c == call.c IN
       ret' = [kind |-> "cmp",
               ab |-> cmp(a, b), ba |-> cmp(b, a),
               bc |-> cmp(b, c), ac |-> cmp(a, c),
               eq_ab |-> eq(a, b),
               lt_ab |-> (partial_cmp(a, b) = Some("Less"))]
    /\ UNCHANGED <<call, root, buffer, sb, file, device>>

InitKey ==
    /\ call \in [op : {"cmp"}, a : BtrfsKey, b : BtrfsKey, c : BtrfsKey]
    /\ ret = NoRet
    /\ root = None
    /\ buffer = EmptyImage
    /\ sb = None
    /\ file = EmptyImage
    /\ device = None

NextKey == CompareKeys

SpecKey == InitKey /\ [][NextKey]_vars

----------------------------------------------------------------------------
(* B-tree handle: src/src/btrees.rs, BTree; nodes: src/src/btrfs.rs *)

MaxItems == 3

\* The keys the tree scenarios store: every offset of type 0 (INODE_ITEM), and
\* offset 0 of the other types.
TreeKeys == {k \in BtrfsKey : k.type_id = 0 \/ k.offset = 0}

\* The value stored under a key: one or two bytes, different for every key.
ValueOf(k) ==
    IF k.offset = 0 THEN <<16 * k.object_id + k.type_id>>
    ELSE <<16 * k.object_id + k.type_id, k.offset>>

\* Strictly ascending key sequences of at most n keys.
RECURSIVE Ascending(_)
Ascending(n) ==
    IF n = 0 THEN {<<>>}
    ELSE LET shorter == Ascending(n - 1) IN
         shorter \cup
         {Append(s, k) : <<s, k>> \in
             {p \in shorter \X TreeKeys :
                 /\ Len(p[1]) = n - 1
                 /\ (p[1] = <<>> \/ cmp(p[1][Len(p[1])], p[2]) = "Less")}}

RECURSIVE SumSizes(_, _)
SumSizes(ks, n) == IF n = 0 THEN 0 ELSE Len(ValueOf(ks[n])) + SumSizes(ks, n - 1)

RECURSIVE Concat(_, _)
\* vals[order[1]] \o vals[order[2]] \o ...
Concat(ks, order) ==
    IF order = <<>> THEN <<>>
    ELSE ValueOf(ks[Head(order)]) \o Concat(ks, Tail(order))

\* struct BtrfsHeader, the two fields that tell the node shapes apart
BtrfsHeader(level, nritems) == [level |-> level, nritems |-> nritems]

\* struct BtrfsLeafNode { header, items, data }.  With downward packing the data
\* area is |data N|...|data 1|data 0| as the comment on BtrfsItems draws it;
\* otherwise the values lie in item order.
BtrfsLeafNode(ks, downward) ==
    LET n == Len(ks)
        total == SumSizes(ks, n)
        off(i) == IF downward THEN total - SumSizes(ks, i) ELSE SumSizes(ks, i - 1)
    IN [kind |-> "Leaf",
        header |-> BtrfsHeader(0, n),
        items |-> [i \in 1..n |-> [key |-> ks[i], data_offset |-> off(i),
                                   data_size |-> Len(ValueOf(ks[i]))]],
        data |-> IF downward THEN Concat(ks, [i \in 1..n |-> n + 1 - i])
                 ELSE Concat(ks, [i \in 1..n |-> i])]

\* struct BtrfsInternalNode { header, keys, block_ptrs }
BtrfsInternalNode(ks) ==
    [kind |-> "Internal",
     header |-> BtrfsHeader(1, Len(ks)),
     keys |-> ks,
     block_ptrs |-> [i \in 1..Len(ks) |-> i]]

\* enum Node, inside Option: the roots a tree can hold
Roots ==
    {None}
    \cup {BtrfsLeafNode(ks, d) : ks \in Ascending(MaxItems), d \in BOOLEAN}
    \cup {BtrfsInternalNode(ks) : ks \in Ascending(MaxItems) \ {<<>>}}

\* slice::binary_search_by over keys with the comparator |k| k.cmp(target):
\* indices are 0-based as in Rust, keys[i + 1] is the element at index i.
RECURSIVE Halve(_, _, _, _)
Halve(keys, target, base, size) ==
    IF size > 1
    THEN LET half == size \div 2
             mid == base + half
         IN Halve(keys, target,
                  IF cmp(keys[mid + 1], target) = "Greater" THEN base ELSE mid,
                  size - half)
    ELSE base

binary_search(keys, target) ==
    IF Len(keys) = 0 THEN [ok |-> FALSE, idx |-> 0]
    ELSE LET base == Halve(keys, target, 0, Len(keys))
             c == cmp(keys[base + 1], target)
         IN IF c = "Equal" THEN [ok |-> TRUE, idx |-> base]
            ELSE [ok |-> FALSE, idx |-> base + (IF c = "Less" THEN 1 ELSE 0)]

\* A slip in the slice: the end taken as the size, not start + size.
search_node_end_is_size(node, search_key) ==
    IF node.kind = "Leaf"
    THEN LET r == binary_search([i \in 1..Len(node.items) |-> node.items[i].key],
                                search_key)
         IN IF r.ok
            THEN LET item == node.items[r.idx + 1]
                     start == item.data_offset
                     end == item.data_size
                 IN IF start > end \/ end > Len(node.data)
                    THEN Panic("slice index out of range")
                    ELSE Some(SubSeq(node.data, start + 1, end))
            ELSE None
    ELSE Panic("not yet implemented")

\* A slip that would validate the range: data.get(start..end) and None when
\* it lies outside.
search_node_get(node, search_key) ==
    IF node.kind = "Leaf"
    THEN LET r == binary_search([i \in 1..Len(node.items) |-> node.items[i].key],
                                search_key)
         IN IF r.ok
            THEN LET item == node.items[r.idx + 1]
                     start == item.data_offset
                     end == start + item.data_size
                 IN IF start > end \/ end > Len(node.data)
                    THEN None
                    ELSE Some(SubSeq(node.data, start + 1, end))
            ELSE None
    ELSE Panic("not yet implemented")

\* BTree::search_node
search_node(node, search_key) ==
    IF node.kind = "Leaf"
    THEN LET r == binary_search([i \in 1..Len(node.items) |-> node.items[i].key],
                                search_key)
         IN IF r.ok
            THEN LET item == node.items[r.idx + 1]
                     start == item.data_offset
                     end == start + item.data_size
                 IN IF start > end \/ end > Len(node.data)
                    THEN Panic("slice index out of range")
                    ELSE Some(SubSeq(node.data, start + 1, end))
            ELSE None
    ELSE LET r == binary_search(node.keys, search_key)
         IN IF r.ok THEN Panic("not yet implemented")          \* todo!(), line 107
            ELSE IF r.idx > 0 THEN Panic("not yet implemented") \* todo!(), line 112
            ELSE None

\* BTree::search
search(self_root, key) ==
    IF self_root.kind = "None" THEN None ELSE search_node(self_root, key)

\* BTree::insert: the body is todo!(), whatever pair the caller means to insert
insert(self_root, key, value) == Panic("not yet implemented")

\* A tree handle serves one call: search takes &self and changes nothing, and
\* insert aborts, so a later call would see what the first one saw.
Search ==
    /\ call = NoCall
    /\ \E key \in TreeKeys :
        /\ call' = [op |-> "search", key |-> key]
        /\ ret' = search(root, key)
    /\ UNCHANGED <<root, buffer, sb, file, device>>

Insert ==
    /\ call = NoCall
    /\ \E key \in TreeKeys :
        /\ call' = [op |-> "insert", key |-> key, value |-> ValueOf(key)]
        /\ ret' = insert(root, key, ValueOf(key))
    /\ UNCHANGED <<root, buffer, sb, file, device>>

InitTree ==
    /\ call = NoCall
    /\ ret = NoRet
    /\ root \in Roots
    /\ buffer = EmptyImage
    /\ sb = None
    /\ file = EmptyImage
    /\ device = None

NextTree == Search \/ Insert

SpecTree == InitTree /\ [][NextTree]_vars

\* Leaves as a damaged block would decode them: the item array intact, the
\* data area short of its last bytes.  BtrfsLeafNode's fields are public and
\* nothing in search checks an item's range against the data area.
MaxCut == 2

CutLeaf(leaf, cut) == [leaf EXCEPT !.data = SubSeq(leaf.data, 1, Len(leaf.data) - cut)]

CutLeaves ==
    {CutLeaf(leaf, cut) :
        <<leaf, cut>> \in {p \in {r \in Roots : r.kind = "Leaf"} \X (1..MaxCut) :
                              p[2] <= Len(p[1].data)}}

InitLeaf ==
    /\ call = NoCall
    /\ ret = NoRet
    /\ root \in {r \in Roots : r.kind = "Leaf"} \cup CutLeaves
    /\ buffer = EmptyImage
    /\ sb = None
    /\ file = EmptyImage
    /\ device = None

NextLeaf == Search

SpecLeaf == InitLeaf /\ [][NextLeaf]_vars

----------------------------------------------------------------------------
(* Superblock codec: src/src/btrfs.rs, BtrfsSuperblock and BtrfsDevItem *)

\* The byte at position p (0-based) of an image: the last patch that covers p,
\* zero where none does.
RECURSIVE PatchByte(_, _, _)
PatchByte(patches, n, p) ==
    IF n = 0 THEN 0
    ELSE LET q == patches[n] IN
         IF q.at <= p /\ p < q.at + Len(q.bytes) THEN q.bytes[p - q.at + 1]
         ELSE PatchByte(patches, n - 1, p)

ByteAt(img, p) == PatchByte(img.patches, Len(img.patches), p)

\* &buffer[from..to] as a byte sequence; the caller has checked to <= len.
\* Only the patches that touch the range can set a byte of it.
Slice(img, from, to) ==
    LET Touches(q) == ~(q.at + Len(q.bytes) <= from \/ to <= q.at)
        touching == SelectSeq(img.patches, Touches)
    IN IF touching = <<>> THEN [i \in 1..(to - from) |-> 0]
       ELSE [i \in 1..(to - from) |-> PatchByte(touching, Len(touching), from + i - 1)]

\* uN::from_le_bytes, the result as base 65536 digits, least significant first
from_le_bytes(bytes) == [i \in 1..(Len(bytes) \div 2) |-> bytes[2 * i - 1] + 256 * bytes[2 * i]]

\* read_u64 / read_u32 / read_u16 closures
read_u64(slice) == from_le_bytes(slice)
read_u32(slice) == from_le_bytes(slice)
read_u16(slice) == from_le_bytes(slice)[1]

\* BtrfsSuperblock::MAGIC = b"_BHRfS_M"
MAGIC == <<95, 66, 72, 82, 102, 83, 95, 77>>

\* The 0x1000 of from_buffer: the length of the superblock record
SUPERBLOCK_LEN == 4096

\* The 0x62 of read_from_buff
DEV_ITEM_LEN == 98

\* The fields BtrfsDevItem::read_from_buff reads, with the byte range of each.
DevItemLayout ==
    << [name |-> "device_uuid",  from |-> 66, to |-> 82, ty |-> "bytes"],
       [name |-> "fsid",         from |-> 82, to |-> 98, ty |-> "bytes"],
       [name |-> "devid",        from |-> 0,  to |-> 8,  ty |-> "u64"],
       [name |-> "total_bytes",  from |-> 8,  to |-> 16, ty |-> "u64"],
       [name |-> "bytes_used",   from |-> 16, to |-> 24, ty |-> "u64"],
       [name |-> "io_align",     from |-> 24, to |-> 28, ty |-> "u32"],
       [name |-> "io_width",     from |-> 28, to |-> 32, ty |-> "u32"],
       [name |-> "sector_size",  from |-> 32, to |-> 36, ty |-> "u32"],
       [name |-> "dev_type",     from |-> 36, to |-> 44, ty |-> "u64"],
       [name |-> "generation",   from |-> 44, to |-> 52, ty |-> "u64"],
       [name |-> "start_offset", from |-> 52, to |-> 60, ty |-> "u64"],
       [name |-> "dev_group",    from |-> 60, to |-> 64, ty |-> "u32"],
       [name |-> "seek_speed",   from |-> 64, to |-> 65, ty |-> "u8"],
       [name |-> "bandwidth",    from |-> 65, to |-> 66, ty |-> "u8"] >>

\* The fields BtrfsSuperblock::from_buffer reads, in the order it reads them
\* (dev_item first), with the byte range of each.
SuperblockLayout ==
    << [name |-> "dev_item",              from |-> 201,  to |-> 299,  ty |-> "dev_item"],
       [name |-> "checksum",              from |-> 0,    to |-> 32,   ty |-> "bytes"],
       [name |-> "fsid",                  from |-> 32,   to |-> 48,   ty |-> "bytes"],
       [name |-> "bytenr",                from |-> 48,   to |-> 56,   ty |-> "u64"],
       [name |-> "flags",                 from |-> 56,   to |-> 64,   ty |-> "u64"],
       [name |-> "magic",                 from |-> 64,   to |-> 72,   ty |-> "u64"],
       [name |-> "generation",            from |-> 72,   to |-> 80,   ty |-> "u64"],
       [name |-> "root",                  from |-> 80,   to |-> 88,   ty |-> "u64"],
       [name |-> "chunk_root",            from |-> 88,   to |-> 96,   ty |-> "u64"],
       [name |-> "log_root",              from |-> 96,   to |-> 104,  ty |-> "u64"],
       [name |-> "log_root_transid",      from |-> 104,  to |-> 112,  ty |-> "u64"],
       [name |-> "total_bytes",           from |-> 112,  to |-> 120,  ty |-> "u64"],
       [name |-> "bytes_used",            from |-> 120,  to |-> 128,  ty |-> "u64"],
       [name |-> "root_dir_objectid",     from |-> 128,  to |-> 136,  ty |-> "u64"],
       [name |-> "num_devices",           from |-> 136,  to |-> 144,  ty |-> "u64"],
       [name |-> "sectorsize",            from |-> 144,  to |-> 148,  ty |-> "u32"],
       [name |-> "nodesize",              from |-> 148,  to |-> 152,  ty |-> "u32"],
       [name |-> "leafsize",              from |-> 152,  to |-> 156,  ty |-> "u32"],
       [name |-> "stripesize",            from |-> 156,  to |-> 160,  ty |-> "u32"],
       [name |-> "sys_chunk_array_size",  from |-> 160,  to |-> 164,  ty |-> "u32"],
       [name |-> "chunk_root_generation", from |-> 164,  to |-> 172,  ty |-> "u64"],
       [name |-> "compat_flags",          from |-> 172,  to |-> 180,  ty |-> "u64"],
       [name |-> "compat_ro_flags",       from |-> 180,  to |-> 188,  ty |-> "u64"],
       [name |-> "incompat_flags",        from |-> 188,  to |-> 196,  ty |-> "u64"],
       [name |-> "csum_type",             from |-> 196,  to |-> 198,  ty |-> "u16"],
       [name |-> "root_level",            from |-> 198,  to |-> 199,  ty |-> "u8"],
       [name |-> "chunk_root_level",      from |-> 199,  to |-> 200,  ty |-> "u8"],
       [name |-> "log_root_level",        from |-> 200,  to |-> 201,  ty |-> "u8"],
       [name |-> "label",                 from |-> 299,  to |-> 555,  ty |-> "bytes"],
       [name |-> "cache_generation",      from |-> 555,  to |-> 563,  ty |-> "u64"],
       [name |-> "uuid_tree_generation",  from |-> 563,  to |-> 571,  ty |-> "u64"],
       [name |-> "reserved",              from |-> 571,  to |-> 811,  ty |-> "bytes"],
       [name |-> "sys_chunk_array",       from |-> 811,  to |-> 2859, ty |-> "bytes"],
       [name |-> "super_roots",           from |-> 2859, to |-> 3531, ty |-> "bytes"],
       [name |-> "unused",                from |-> 3531, to |-> 4096, ty |-> "bytes"] >>

FieldNamed(layout, name) == CHOOSE i \in 1..Len(layout) : layout[i].name = name

\* A slip in the byte order: the integers read most significant byte first.
Decode_big_endian(ty, bytes) ==
    LET rev == [i \in 1..Len(bytes) |-> bytes[Len(bytes) + 1 - i]] IN
    CASE ty = "u64" -> read_u64(rev)
      [] ty = "u32" -> read_u32(rev)
      [] ty = "u16" -> read_u16(rev)
      [] ty = "u8" -> bytes[1]
      [] OTHER -> bytes

\* One field decoded from its bytes.
Decode(ty, bytes) ==
    CASE ty = "u64" -> read_u64(bytes)
      [] ty = "u32" -> read_u32(bytes)
      [] ty = "u16" -> read_u16(bytes)
      [] ty = "u8" -> bytes[1]
      [] OTHER -> bytes

\* BtrfsDevItem::read_from_buff, on the bytes of the slice it is given
read_from_buff(bytes) ==
    IF Len(bytes) < DEV_ITEM_LEN THEN [kind |-> "Err", err |-> "InvalidInput"]
    ELSE [kind |-> "Ok",
          value |-> [n \in {DevItemLayout[i].name : i \in 1..Len(DevItemLayout)} |->
                        LET f == DevItemLayout[FieldNamed(DevItemLayout, n)] IN
                        Decode(f.ty, SubSeq(bytes, f.from + 1, f.to))]]

\* The byte ranges a parse that went through has sliced, in order.
Reads(layout) == [i \in 1..Len(layout) |-> <<layout[i].from, layout[i].to>>]

\* The body of from_buffer past its length check: lines 228-277.  A slice whose
\* end lies past the buffer aborts.
parse_fields(buf) ==
    IF \E i \in 1..Len(SuperblockLayout) : SuperblockLayout[i].to > buf.len
    THEN Panic("range end index out of range")
    ELSE LET dev == read_from_buff(Slice(buf, 201, 299)) IN
         IF dev.kind = "Err" THEN Panic("called Result::unwrap() on an Err value")
         ELSE [kind |-> "Ok",
               reads |-> Reads(SuperblockLayout),
               value |-> [n \in {SuperblockLayout[i].name : i \in 1..Len(SuperblockLayout)} |->
                            LET f == SuperblockLayout[FieldNamed(SuperblockLayout, n)] IN
                            IF f.ty = "dev_item" THEN dev.value
                            ELSE Decode(f.ty, Slice(buf, f.from, f.to))]]

\* A slip in the length check: the end of the device descriptor (0x12b) for
\* the end of the record.
from_buffer_short_check(buf) ==
    IF buf.len < 299
    THEN [kind |-> "Err", err |-> "Buffer too small for superblock", reads |-> <<>>]
    ELSE parse_fields(buf)

\* BtrfsSuperblock::from_buffer
from_buffer(buf) ==
    IF buf.len < SUPERBLOCK_LEN
    THEN [kind |-> "Err", err |-> "Buffer too small for superblock", reads |-> <<>>]
    ELSE parse_fields(buf)

\* u16::count_ones on one digit
RECURSIVE count_ones(_)
count_ones(n) == IF n = 0 THEN 0 ELSE (n % 2) + count_ones(n \div 2)

\* u32::is_power_of_two: exactly one bit set
is_power_of_two(x) == count_ones(x[1]) + count_ones(x[2]) = 1

VerifyResult(value, checks) == [kind |-> "return", value |-> value, checks |-> checks]

\* A slip: the node size is never looked at.
verify_no_nodesize(self) ==
    IF self.magic # read_u64(MAGIC) THEN VerifyResult(FALSE, <<"magic">>)
    ELSE IF ~is_power_of_two(self.sectorsize)
    THEN VerifyResult(FALSE, <<"magic", "sectorsize">>)
    ELSE IF self.fsid # self.dev_item.fsid
    THEN VerifyResult(FALSE, <<"magic", "sectorsize", "fsid">>)
    ELSE [kind |-> "panic", msg |-> "not yet implemented",
          checks |-> <<"magic", "sectorsize", "fsid">>]

\* BtrfsSuperblock::verify; checks lists the comparisons made, in order.  The
\* checksum is never computed: past the four checks the body is todo!().
verify(self) ==
    IF self.magic # read_u64(MAGIC) THEN VerifyResult(FALSE, <<"magic">>)
    ELSE IF ~is_power_of_two(self.sectorsize)
    THEN VerifyResult(FALSE, <<"magic", "sectorsize">>)
    ELSE IF ~is_power_of_two(self.nodesize)
    THEN VerifyResult(FALSE, <<"magic", "sectorsize", "nodesize">>)
    ELSE IF self.fsid # self.dev_item.fsid
    THEN VerifyResult(FALSE, <<"magic", "sectorsize", "nodesize", "fsid">>)
    ELSE [kind |-> "panic", msg |-> "not yet implemented",
          checks |-> <<"magic", "sectorsize", "nodesize", "fsid">>]

\* The buffers handed to the codec.
BufferLens == {0, 97, 298, 299, 4095, 4096, 4097, 16384}

Patch(at, bytes) == [at |-> at, bytes |-> bytes]

FsidA == [i \in 1..16 |-> 160 + i]
FsidB == [i \in 1..16 |-> IF i = 16 THEN 1 ELSE 160 + i]

\* Bytes that tell the other fields apart from each other and from zero.
Filler ==
    << Patch(48, <<0, 0, 1, 0, 0, 0, 0, 0>>),        \* bytenr 0x10000
       Patch(72, <<7, 0, 0, 0, 0, 0, 0, 0>>),        \* generation
       Patch(88, <<0, 0, 2, 0, 0, 0, 0, 0>>),        \* chunk_root
       Patch(96, <<0, 0, 3, 0, 0, 0, 0, 0>>),        \* log_root
       Patch(104, <<9, 0, 0, 0, 0, 0, 0, 0>>),       \* log_root_transid
       Patch(201, <<1, 0, 0, 0, 0, 0, 0, 0>>),       \* dev_item.devid
       Patch(56, <<1, 2, 3, 4, 5, 6, 7, 8>>),        \* flags
       Patch(152, <<0, 64, 0, 0, 0, 0, 1, 0>>),      \* leafsize, stripesize
       Patch(160, <<97, 0, 0, 0>>),                  \* sys_chunk_array_size
       Patch(196, <<1, 2, 3, 4, 5>>),                \* csum_type, tree levels
       Patch(217, <<0, 16, 0, 0, 0, 16, 0, 0>>),     \* dev_item.io_align, io_width
       Patch(265, <<50, 60>>),                       \* dev_item.seek_speed, bandwidth
       Patch(299, <<111, 120, 105>>),                \* label
       Patch(4095, <<255>>) >>                       \* the last byte of the record

SuperblockPatches ==
    {Filler \o <<Patch(0, csum), Patch(32, FsidA), Patch(64, magic), Patch(80, rootp),
                 Patch(144, sector), Patch(148, node), Patch(283, devfsid)>> :
        csum \in {<<193, 18, 7, 64>>, <<192, 18, 7, 64>>},
        magic \in {MAGIC, <<95, 66, 72, 82, 102, 115, 95, 77>>, <<>>},
        rootp \in {<<0, 64, 0, 0, 0, 0, 0, 0>>},
        sector \in {<<0, 16, 0, 0>>, <<0, 0, 0, 0>>, <<1, 16, 0, 0>>, <<0, 0, 1, 0>>},
        node \in {<<0, 64, 0, 0>>, <<0, 0, 0, 0>>, <<0, 96, 0, 0>>},
        devfsid \in {FsidA, FsidB}}

Buffers == [len : BufferLens, patches : SuperblockPatches]

FromBuffer ==
    /\ call = NoCall
    /\ call' = [op |-> "from_buffer"]
    /\ LET r == from_buffer(buffer) IN
        /\ ret' = IF r.kind = "Ok" THEN [kind |-> "Ok", reads |-> r.reads] ELSE r
        /\ sb' = IF r.kind = "Ok" THEN Some(r.value) ELSE None
    /\ UNCHANGED <<root, buffer, file, device>>

Verify ==
    /\ call.op = "from_buffer"
    /\ sb.kind = "Some"
    /\ call' = [op |-> "verify"]
    /\ ret' = verify(sb.value)
    /\ UNCHANGED <<root, buffer, sb, file, device>>

InitSuper ==
    /\ call = NoCall
    /\ ret = NoRet
    /\ root = None
    /\ buffer \in Buffers
    /\ sb = None
    /\ file = EmptyImage
    /\ device = None

NextSuper == FromBuffer \/ Verify

SpecSuper == InitSuper /\ [][NextSuper]_vars

----------------------------------------------------------------------------
(* Block device adapter and BTree::new: src/src/btrees.rs *)

BTRFS_DEFAULT_BLOCK_SIZE == 16384

MaxBlockPtr == 2

\* The literal BTree::new compares the first eight bytes with: b"_BHRfs_M"
NEW_MAGIC == <<95, 66, 72, 82, 102, 115, 95, 77>>

\* BlockDevice::new: the size field is the length of the backing file.
\* open_ok: whether the environment lets the path be opened and its metadata read.
BlockDevice_new(f, open_ok) ==
    IF ~open_ok THEN [kind |-> "Err", err |-> "IoError"]
    ELSE [kind |-> "Ok", value |-> [size |-> f.len]]

\* BlockDevice::read_block.  The Vec<u8> returned is the byte range
\* [from, from + len) of the file.  seek_ok: whether the environment lets the
\* seek through; read_exact fails when the file ends before the buffer is full.
read_block(self, f, block_ptr, seek_ok) ==
    IF ~seek_ok THEN Panic("Failed to seek the block ptr")
    ELSE IF block_ptr * self.size + self.size > f.len
    THEN Panic("Failed to read the data to buffer")
    ELSE [kind |-> "Ok", value |-> [from |-> block_ptr * self.size, len |-> self.size]]

NewResult(kind, detail, magic_ok, root_ptr) ==
    [kind |-> kind, detail |-> detail, magic_ok |-> magic_ok, root_ptr |-> root_ptr]

\* BTree::new.  magic_ok: whether the magic comparison let the device through;
\* root_ptr: the local root_ptr when the body got to compute it.
BTree_new(f, open_ok) ==
    LET d == BlockDevice_new(f, open_ok) IN
    IF d.kind = "Err" THEN NewResult("Err", "IoError", FALSE, <<>>)
    ELSE LET r == read_block(d.value, f, 0, TRUE) IN
    IF r.kind = "panic" THEN NewResult("panic", r.msg, FALSE, <<>>)
    ELSE LET data == r.value IN
    IF data.len < 8 THEN NewResult("panic", "range end index 8 out of range", FALSE, <<>>)
    ELSE IF Slice(f, data.from, data.from + 8) # NEW_MAGIC
    THEN NewResult("Err", "InvalidData", FALSE, <<>>)
    ELSE IF data.len < 112
    THEN NewResult("panic", "range end index 112 out of range", TRUE, <<>>)
    ELSE NewResult("panic", "not yet implemented", TRUE,
                   from_le_bytes(Slice(f, data.from + 104, data.from + 112)))

\* The backing files.
FileLens == {0, 4, 100, 4096, 16384, 32768, 49152}

FilePatches ==
    {<<Patch(0, first), Patch(64, magic), Patch(80, <<0, 64, 0, 0, 0, 0, 0, 0>>),
       Patch(104, <<9, 0, 0, 0, 0, 0, 0, 0>>), Patch(148, <<0, 64, 0, 0>>)>> :
        first \in {<<193, 18, 7, 64, 0, 0, 0, 0>>, NEW_MAGIC, MAGIC},
        magic \in {MAGIC, NEW_MAGIC, <<>>}}

Files == [len : FileLens, patches : FilePatches]

Open ==
    /\ call = NoCall
    /\ \E open_ok \in BOOLEAN :
        LET d == BlockDevice_new(file, open_ok) IN
        /\ call' = [op |-> "BlockDevice::new", open_ok |-> open_ok]
        /\ ret' = [kind |-> d.kind]
        /\ device' = IF d.kind = "Ok" THEN Some(d.value) ELSE None
    /\ UNCHANGED <<root, buffer, sb, file>>

\* The first read after the open; the seek is absolute, so a later read of the
\* same block would do the same.
ReadBlock ==
    /\ call.op = "BlockDevice::new"
    /\ device.kind = "Some"
    /\ \E block_ptr \in 0..MaxBlockPtr, seek_ok \in BOOLEAN :
        /\ call' = [op |-> "read_block", block_ptr |-> block_ptr, seek_ok |-> seek_ok]
        /\ ret' = read_block(device.value, file, block_ptr, seek_ok)
    /\ UNCHANGED <<root, buffer, sb, file, device>>

BTreeNew ==
    /\ call = NoCall
    /\ \E open_ok \in BOOLEAN :
        /\ call' = [op |-> "BTree::new", open_ok |-> open_ok]
        /\ ret' = BTree_new(file, open_ok)
        /\ device' = LET d == BlockDevice_new(file, open_ok) IN
                     IF d.kind = "Ok" THEN Some(d.value) ELSE None
    /\ UNCHANGED <<root, buffer, sb, file>>

InitDev ==
    /\ call = NoCall
    /\ ret = NoRet
    /\ root = None
    /\ buffer = EmptyImage
    /\ sb = None
    /\ file \in Files
    /\ device = None

NextDev == Open \/ ReadBlock \/ BTreeNew

SpecDev == InitDev /\ [][NextDev]_vars

----------------------------------------------------------------------------
(* The library as a whole: any one of its objects, serving a call *)

Init == InitKey \/ InitTree \/ InitLeaf \/ InitSuper \/ InitDev

Next == NextKey \/ NextTree \/ NextSuper \/ NextDev

Spec == Init /\ [][Next]_vars

----------------------------------------------------------------------------
(* Claims on the key order, checked under SpecKey *)

Reverse(o) == IF o = "Less" THEN "Greater" ELSE IF o = "Greater" THEN "Less" ELSE "Equal"

\* The order the first differing field among object_id, type_id, offset decides.
FirstDiffering(a, b) ==
    IF a.object_id # b.object_id THEN <<a.object_id, b.object_id>>
    ELSE IF a.type_id # b.type_id THEN <<a.type_id, b.type_id>>
    ELSE IF a.offset # b.offset THEN <<a.offset, b.offset>>
    ELSE <<0, 0>>

Lexicographic(a, b) ==
    LET d == FirstDiffering(a, b) IN
    IF d[1] < d[2] THEN "Less" ELSE IF d[1] > d[2] THEN "Greater" ELSE "Equal"

\* C1: BtrfsKey comparison is the lexicographic order of (object_id, type_id,
\* offset), object_id most significant: cmp(a,b) is what the first differing
\* field decides; it is Equal exactly when the three fields are equal, and
\* exactly when a == b; cmp(a,b) is the reverse of cmp(b,a); and a < b and
\* b < c imply a < c.
C1_KeyOrderLexicographic ==
    (call.op = "cmp" /\ ret.kind = "cmp") =>
        LET a == call.a  b == call.b IN
        /\ ret.ab = Lexicographic(a, b)
        /\ (ret.ab = "Equal") <=> (a.object_id = b.object_id /\ a.type_id = b.type_id
                                    /\ a.offset = b.offset)
        /\ (ret.ab = "Equal") <=> ret.eq_ab
        /\ ret.lt_ab <=> (ret.ab = "Less")
        /\ ret.ba = Reverse(ret.ab)
        /\ (ret.ab = "Less" /\ ret.bc = "Less") => ret.ac = "Less"

\* object_id decides against type_id and offset, through a chain a < b < c.
C1_Witness ==
    /\ call.op = "cmp" /\ ret.kind = "cmp"
    /\ call.a.object_id < call.b.object_id
    /\ call.a.type_id > call.b.type_id
    /\ call.a.offset > call.b.offset
    /\ call.b.object_id = call.c.object_id /\ call.b.type_id < call.c.type_id
    /\ call.b.offset > call.c.offset
    /\ ret.ab = "Less" /\ ret.bc = "Less" /\ ret.ac = "Less"
    /\ ~ret.eq_ab

----------------------------------------------------------------------------
(* Claims on the tree, checked under SpecTree *)

\* The items of a leaf that carry a key.
Carrying(leaf, key) ==
    {i \in 1..Len(leaf.items) :
        /\ leaf.items[i].key.object_id = key.object_id
        /\ leaf.items[i].key.type_id = key.type_id
        /\ leaf.items[i].key.offset = key.offset}

\* C2: on a tree whose root is a Leaf with items in strictly ascending key
\* order, search(key) returns the slice data[data_offset .. data_offset +
\* data_size] of the one item whose key is the search key (the value stored
\* under that key), and NotFound (None) for a key no item carries; a tree with
\* no root returns NotFound for every key.
C2_LeafSearch ==
    (call.op = "search" /\ root.kind \in {"None", "Leaf"}) =>
        IF root.kind = "None" THEN ret = None
        ELSE LET hits == Carrying(root, call.key) IN
             IF hits = {} THEN ret = None
             ELSE /\ Cardinality(hits) = 1
                  /\ \A i \in hits :
                        LET it == root.items[i] IN
                        /\ ret = Some([j \in 1..it.data_size |->
                                          root.data[it.data_offset + j]])
                        /\ ret.value = ValueOf(call.key)

\* The scenario of the specification: items (1,0,0), (1,0,5), (2,0,0), search (1,0,5).
C2_Witness ==
    /\ call.op = "search"
    /\ root.kind = "Leaf"
    /\ [i \in 1..Len(root.items) |-> root.items[i].key]
         = <<Key(1, 0, 0), Key(1, 0, 5), Key(2, 0, 0)>>
    /\ root.items[2].data_offset > 0
    /\ call.key = Key(1, 0, 5)
    /\ ret = Some(<<16, 5>>)

\* C3: on an Internal root, search descends through the pointer of the
\* rightmost key <= the search key (the key's own pointer on an exact match),
\* returns NotFound at this node only when no key is <= the search key, and
\* otherwise continues in the child and completes with a result.
C3_InternalDescent ==
    (call.op = "search" /\ root.kind = "Internal") =>
        LET le == {i \in 1..Len(root.keys) : cmp(root.keys[i], call.key) # "Greater"} IN
        IF le = {} THEN ret = None
        ELSE ret.kind \in {"Some", "None"}

\* C10: every insert(key, value) of a key the tree does not hold completes
\* successfully, and afterwards search(key) returns the value inserted.
C10_InsertThenSearch ==
    [][(call'.op = "insert" /\ call.op # "insert" /\ search(root, call'.key) = None)
          => (ret'.kind = "Ok" /\ search(root', call'.key) = Some(call'.value))]_vars

----------------------------------------------------------------------------
(* Claim on leaves whose items may point outside the data area, checked under SpecLeaf *)

\* C12: a leaf search that finds the key reads only inside the data area when
\* the matched item has data_offset + data_size <= len(data), and returns
\* those bytes; when the matched item has data_offset + data_size > len(data)
\* the search returns neither NotFound nor an error: it aborts on the
\* out-of-range slice.
C12_LeafSliceBounds ==
    (call.op = "search" /\ root.kind = "Leaf") =>
        \A i \in Carrying(root, call.key) :
            LET it == root.items[i] IN
            IF it.data_offset + it.data_size <= Len(root.data)
            THEN /\ ret.kind = "Some"
                 /\ Len(ret.value) = it.data_size
                 /\ \A j \in 1..it.data_size :
                       /\ it.data_offset + j \in DOMAIN root.data
                       /\ ret.value[j] = root.data[it.data_offset + j]
            ELSE ret.kind = "panic"

\* A leaf cut short of the matched item's bytes while its first item is whole:
\* the search aborts.
C12_Witness ==
    /\ call.op = "search" /\ root.kind = "Leaf"
    /\ Len(root.items) >= 2
    /\ root.items[1].data_offset + root.items[1].data_size <= Len(root.data)
    /\ \E i \in Carrying(root, call.key) :
          /\ root.items[i].data_offset < Len(root.data)
          /\ root.items[i].data_offset + root.items[i].data_size > Len(root.data)
    /\ ret.kind = "panic"

----------------------------------------------------------------------------
(* Claims on the superblock codec, checked under SpecSuper *)

\* The little-endian value of "_BHRfS_M", 0x4D5F53665248425F, as base 65536 digits.
MagicValue == <<16991, 21064, 21350, 19807>>

\* The u32 powers of two, as base 65536 digits.
RECURSIVE Pow2(_)
Pow2(k) == IF k = 0 THEN 1 ELSE 2 * Pow2(k - 1)

PowersOfTwo == {<<Pow2(k), 0>> : k \in 0..15} \cup {<<0, Pow2(k)>> : k \in 0..15}

VerifyOrder == <<"magic", "sectorsize", "nodesize", "fsid">>

\* Which of the four conditions of verify a superblock fails.
Failing(s) ==
    {i \in 1..4 :
        \/ i = 1 /\ s.magic # MagicValue
        \/ i = 2 /\ s.sectorsize \notin PowersOfTwo
        \/ i = 3 /\ s.nodesize \notin PowersOfTwo
        \/ i = 4 /\ s.fsid # s.dev_item.fsid}

C5_VerifyRejects ==
    (call.op = "verify" /\ Failing(sb.value) # {}) =>
        LET first == CHOOSE i \in Failing(sb.value) : \A j \in Failing(sb.value) : i <= j IN
        /\ ret.kind = "return"
        /\ ret.value = FALSE
        /\ ret.checks = SubSeq(VerifyOrder, 1, first)

\* A superblock that passes the magic and sector size checks and is rejected
\* for a node size of 24576, with a matching fsid.
C5_Witness ==
    /\ call.op = "verify"
    /\ Failing(sb.value) = {3}
    /\ sb.value.nodesize = <<24576, 0>>
    /\ ret = VerifyResult(FALSE, <<"magic", "sectorsize", "nodesize">>)

\* C7: from_buffer returns an error, without reading any field, for every
\* buffer shorter than 4096 bytes, and a superblock for every buffer of 4096
\* bytes or more (the device descriptor sub-parse never fails).
C7_ParseLength ==
    call.op = "from_buffer" =>
        IF buffer.len < 4096
        THEN ret.kind = "Err" /\ ret.reads = <<>> /\ sb = None
        ELSE ret.kind = "Ok" /\ sb.kind = "Some" /\ ret.reads # <<>>

\* A buffer one byte short of the record, long enough for the device descriptor.
C7_Witness ==
    /\ call.op = "from_buffer"
    /\ buffer.len = 4095
    /\ ret.kind = "Err"
    /\ sb = None

\* The bytes an integer decoded as base 65536 digits was read from, least
\* significant first.
RECURSIVE DigitBytes(_)
DigitBytes(digits) ==
    IF digits = <<>> THEN <<>>
    ELSE <<Head(digits) % 256, Head(digits) \div 256>> \o DigitBytes(Tail(digits))

\* The little-endian bytes of a field of the given type.
LeBytes(ty, v) ==
    CASE ty \in {"u64", "u32"} -> DigitBytes(v)
      [] ty = "u16" -> <<v % 256, v \div 256>>
      [] ty = "u8" -> <<v>>
      [] OTHER -> v

RECURSIVE FieldsBytes(_, _)
\* The little-endian bytes of the listed fields of a record, one after the other.
FieldsBytes(rec, fields) ==
    IF fields = <<>> THEN <<>>
    ELSE LeBytes(Head(fields)[2], rec[Head(fields)[1]]) \o FieldsBytes(rec, Tail(fields))

\* The device descriptor's fields in their on-disk order, with their types.
DevItemFields ==
    << <<"devid", "u64">>, <<"total_bytes", "u64">>, <<"bytes_used", "u64">>,
       <<"io_align", "u32">>, <<"io_width", "u32">>, <<"sector_size", "u32">>,
       <<"dev_type", "u64">>, <<"generation", "u64">>, <<"start_offset", "u64">>,
       <<"dev_group", "u32">>, <<"seek_speed", "u8">>, <<"bandwidth", "u8">>,
       <<"device_uuid", "bytes">>, <<"fsid", "bytes">> >>

\* The on-disk layout table: the byte range of each field or group of fields.
LayoutTable ==
    << [from |-> 0,   to |-> 32,  fields |-> << <<"checksum", "bytes">> >>],
       [from |-> 32,  to |-> 48,  fields |-> << <<"fsid", "bytes">> >>],
       [from |-> 48,  to |-> 56,  fields |-> << <<"bytenr", "u64">> >>],
       [from |-> 56,  to |-> 64,  fields |-> << <<"flags", "u64">> >>],
       [from |-> 64,  to |-> 72,  fields |-> << <<"magic", "u64">> >>],
       [from |-> 72,  to |-> 80,  fields |-> << <<"generation", "u64">> >>],
       [from |-> 80,  to |-> 88,  fields |-> << <<"root", "u64">> >>],
       [from |-> 88,  to |-> 96,  fields |-> << <<"chunk_root", "u64">> >>],
       [from |-> 96,  to |-> 104, fields |-> << <<"log_root", "u64">> >>],
       [from |-> 104, to |-> 112, fields |-> << <<"log_root_transid", "u64">> >>],
       [from |-> 144, to |-> 164, fields |-> << <<"sectorsize", "u32">>, <<"nodesize", "u32">>,
                                               <<"leafsize", "u32">>, <<"stripesize", "u32">>,
                                               <<"sys_chunk_array_size", "u32">> >>],
       [from |-> 196, to |-> 201, fields |-> << <<"csum_type", "u16">>, <<"root_level", "u8">>,
                                               <<"chunk_root_level", "u8">>,
                                               <<"log_root_level", "u8">> >>],
       [from |-> 299, to |-> 555, fields |-> << <<"label", "bytes">> >>] >>

\* The ranges cover [0, n) with no gap and no overlap: none is empty, one
\* starts at 0, and each ends at n or where exactly one other starts.
Tiles(ranges, n) ==
    /\ \A i \in 1..Len(ranges) : 0 <= ranges[i][1] /\ ranges[i][1] < ranges[i][2]
                                  /\ ranges[i][2] <= n
    /\ \A i, j \in 1..Len(ranges) : ranges[i][1] = ranges[j][1] => i = j
    /\ \E i \in 1..Len(ranges) : ranges[i][1] = 0
    /\ \A i \in 1..Len(ranges) :
          ranges[i][2] = n \/ \E j \in 1..Len(ranges) : ranges[j][1] = ranges[i][2]

----------------------------------------------------------------------------
(* Claims on the block device and BTree::new, checked under SpecDev *)

\* C6: opening a device lets it through only if the magic field at 0x40-0x48
\* is "_BHRfS_M", the root block pointer it yields is the little-endian u64
\* at 0x50-0x58 (the magic and root that from_buffer and verify obtain from
\* the same bytes), and any other device is rejected with an
\* InvalidFilesystem-class error.
C6_OpenAgreesWithCodec ==
    (call.op = "BTree::new" /\ call.open_ok) =>
        LET parsed == from_buffer(file)
            valid == parsed.kind = "Ok" /\ parsed.value.magic = read_u64(MAGIC)
        IN /\ ret.magic_ok => valid
           /\ ret.magic_ok => (parsed.kind = "Ok" /\ ret.root_ptr = parsed.value.root)
           /\ ~valid => (ret.kind = "Err" /\ ret.detail = "InvalidData")

\* Fewer than the device's block size bytes lie at the offset of the block read.
ShortRead == call.block_ptr * device.value.size + device.value.size > file.len

\* C8: read_block(n) returns an IoError value on a seek failure and on a short
\* read; it never aborts the caller instead.
C8_ReadBlockReturnsIoError ==
    (call.op = "read_block" /\ (~call.seek_ok \/ ShortRead)) =>
        (ret.kind = "Err" /\ ret.err = "IoError")

\* C9: read_block(n) returns exactly block_size bytes from offset n *
\* block_size, block_size being the 16 KiB device constant and not the length
\* of the file: on a device of two blocks or more, read_block(0) and
\* read_block(1) return [0, block_size) and [block_size, 2 * block_size).
C9_ReadBlockIsOneBlock ==
    (/\ call.op = "read_block"
     /\ call.seek_ok
     /\ call.block_ptr \in {0, 1}
     /\ file.len >= 2 * BTRFS_DEFAULT_BLOCK_SIZE)
    => ret = [kind |-> "Ok",
              value |-> [from |-> call.block_ptr * BTRFS_DEFAULT_BLOCK_SIZE,
                         len |-> BTRFS_DEFAULT_BLOCK_SIZE]]

====
